---- MODULE Spec2Model ----
(***************************************************************************)
(* The guarded query subsystem of the chatbot (src/sql_tools.py) and the   *)
(* bounded ReAct loop that drives it (src/agent_chatbot.py).               *)
(*                                                                         *)
(* SQL text is a sequence of one-character strings, so that the textual    *)
(* checks of SQLQueryValidator.validate (upper-casing, \b word boundaries, *)
(* substring tests, rstrip) are computed the way the code computes them.   *)
(***************************************************************************)
EXTENDS Integers, Sequences, FiniteSets, Bags, TLC

(***************************************************************************)
(* Characters and Python's str operations                                  *)
(***************************************************************************)
LowerLetters == <<"a","b","c","d","e","f","g","h","i","j","k","l","m","n","o","p","q","r","s","t","u","v","w","x","y","z">>

UpperLetters == <<"A","B","C","D","E","F","G","H","I","J","K","L","M","N","O","P","Q","R","S","T","U","V","W","X","Y","Z">>

Digits == <<"0","1","2","3","4","5","6","7","8","9">>

Range(s) == {s[i] : i \in DOMAIN s}

\* the upper-case letter of each lower-case letter
LowerToUpper == [c \in Range(LowerLetters) |-> UpperLetters[CHOOSE i \in DOMAIN LowerLetters : LowerLetters[i] = c]]

\* str.upper() on one (ASCII) character
UpperChar(c) == IF c \in DOMAIN LowerToUpper THEN LowerToUpper[c] ELSE c

\* str.upper()
Upper(s) == [i \in DOMAIN s |-> UpperChar(s[i])]

\* the regex class \w: [A-Za-z0-9_]
WordChars == Range(LowerLetters) \cup Range(UpperLetters) \cup Range(Digits) \cup {"_"}

IsWordChar(c) == c \in WordChars

DigitChars == Range(Digits)

\* str.isspace() on one character
IsSpace(c) == c \in {" ", "\n", "\t", "\r"}

\* s[i:i+len(pat)] == pat
MatchAt(s, i, pat) ==
    /\ i >= 1
    /\ i + Len(pat) - 1 <= Len(s)
    /\ \A j \in 1..Len(pat) : s[i + j - 1] = pat[j]

\* pat in s
Contains(s, pat) == \E i \in 1..(Len(s) - Len(pat) + 1) : MatchAt(s, i, pat)

\* the regex assertion \b between positions i-1 and i of s (1-based, i in 1..Len(s)+1)
WordBoundary(s, i) ==
    LET before == i > 1 /\ IsWordChar(s[i - 1])
        after  == i <= Len(s) /\ IsWordChar(s[i])
    IN before # after

\* the positions where re.search(r'\b' + re.escape(pat) + r'\b', s) can match
WordMatches(s, pat) ==
    {i \in 1..(Len(s) - Len(pat) + 1) :
        MatchAt(s, i, pat) /\ WordBoundary(s, i) /\ WordBoundary(s, i + Len(pat))}

\* re.search(r'\b' + re.escape(pat) + r'\b', s) is not None
WordSearch(s, pat) == WordMatches(s, pat) # {}

\* len(re.findall(r'\bPAT\b', s)): the matches of a word cannot overlap
CountWord(s, pat) == Cardinality(WordMatches(s, pat))

\* str.rstrip(';')
RStripSemi(s) ==
    LET keep == {n \in 0..Len(s) : (n = 0 \/ s[n] # ";") /\ \A j \in (n + 1)..Len(s) : s[j] = ";"}
    IN SubSeq(s, 1, CHOOSE n \in keep : TRUE)

\* str.strip() == "" (the string is all whitespace)
IsBlank(s) == \A i \in DOMAIN s : IsSpace(s[i])

RECURSIVE Decimal(_)
\* str(n) for a natural number n
Decimal(n) == IF n < 10 THEN <<Digits[n + 1]>> ELSE Decimal(n \div 10) \o <<Digits[(n % 10) + 1]>>

(***************************************************************************)
(* SQLQueryValidator: class constants                                      *)
(***************************************************************************)
BLOCKED_KEYWORDS == <<
    <<"D","R","O","P">>,
    <<"D","E","L","E","T","E">>,
    <<"U","P","D","A","T","E">>,
    <<"I","N","S","E","R","T">>,
    <<"A","L","T","E","R">>,
    <<"C","R","E","A","T","E">>,
    <<"T","R","U","N","C","A","T","E">>,
    <<"G","R","A","N","T">>,
    <<"R","E","V","O","K","E">>,
    <<"E","X","E","C">>,
    <<"E","X","E","C","U","T","E">>,
    <<"I","N","T","O"," ","O","U","T","F","I","L","E">>,
    <<"L","O","A","D","_","F","I","L","E">>,
    <<"L","O","A","D"," ","D","A","T","A">>,
    <<"B","A","C","K","U","P">> >>

MAX_QUERY_LENGTH == 2000

MAX_TABLES == 5

(***************************************************************************)
(* sqlparse, as validate uses it: parse(query)[0].get_type().  The first   *)
(* statement starts with the first token of the text, so its type is read  *)
(* off the first word: a DML or DDL keyword gives its upper-case name,     *)
(* anything else 'UNKNOWN'.  (Texts that open with a comment or with WITH  *)
(* are outside the texts enumerated below.)                                *)
(***************************************************************************)
SELECT_KW == <<"S","E","L","E","C","T">>

UNKNOWN_TYPE == <<"U","N","K","N","O","W","N">>

TypedKeywords == {
    SELECT_KW,
    <<"I","N","S","E","R","T">>, <<"D","E","L","E","T","E">>, <<"U","P","D","A","T","E">>,
    <<"U","P","S","E","R","T">>, <<"R","E","P","L","A","C","E">>, <<"M","E","R","G","E">>,
    <<"D","R","O","P">>, <<"C","R","E","A","T","E">>, <<"A","L","T","E","R">> }

\* sqlparse.parse(query): the statements of the text, split after each ';' that is
\* not inside a '...' literal; the empty text has none
RECURSIVE sqlparse_parse(_)
sqlparse_parse(query) ==
    IF query = <<>> THEN <<>>
    ELSE LET cuts == {i \in DOMAIN query :
                        query[i] = ";" /\ Cardinality({j \in 1..(i - 1) : query[j] = "'"}) % 2 = 0}
         IN IF cuts = {} THEN <<query>>
            ELSE LET c == CHOOSE i \in cuts : \A o \in cuts : i <= o
                 IN <<SubSeq(query, 1, c)>> \o sqlparse_parse(SubSeq(query, c + 1, Len(query)))

\* the first token of the text when it is a word, else the empty sequence
FirstWord(s) ==
    LET starts == {i \in DOMAIN s : ~IsSpace(s[i]) /\ \A j \in 1..(i - 1) : IsSpace(s[j])}
    IN IF starts = {} THEN <<>>
       ELSE LET b == CHOOSE i \in starts : TRUE
                ends == {e \in (b - 1)..Len(s) :
                            /\ \A j \in b..e : IsWordChar(s[j])
                            /\ (e = Len(s) \/ ~IsWordChar(s[e + 1]))}
            IN SubSeq(s, b, CHOOSE e \in ends : TRUE)

\* statement.get_type()
get_type(statement) ==
    LET w == Upper(FirstWord(statement))
    IN IF w \in TypedKeywords THEN w ELSE UNKNOWN_TYPE

(***************************************************************************)
(* Verdicts.  An error is the message of the code with its interpolated    *)
(* part kept apart in arg; none of the fixed message texts spells a        *)
(* blocked keyword.                                                        *)
(***************************************************************************)
NoArg == <<>>

Accept == [valid |-> TRUE, error |-> "", arg |-> NoArg]

Reject(msg, arg) == [valid |-> FALSE, error |-> msg, arg |-> arg]

RateLimitMsg == "Rate limit exceeded. Please wait before making more queries."

TooLongMsg == "Query too long. Maximum length is {MAX_QUERY_LENGTH} characters."

EmptyMsg == "Query cannot be empty."

KindMsg == "Only SELECT queries are allowed. Found: {query_type}"

BlockedMsg == "Blocked keyword detected: {keyword}"

CommentMsg == "SQL comments are not allowed."

MultipleMsg == "Multiple SQL statements are not allowed."

TooManyTablesMsg == "Too many tables in query. Maximum is {MAX_TABLES}."

InvalidSyntaxMsg == "Invalid SQL syntax."

\* steps 4 and 5 of validate: the type of the first statement sqlparse finds
query_type(query) == get_type(sqlparse_parse(query)[1])

\* SQLQueryValidator._count_tables
count_tables_from_only(query) == CountWord(Upper(query), <<"F","R","O","M">>)

\* _count_tables: the words FROM and JOIN of the upper-cased text
count_tables(query) ==
    LET query_upper == Upper(query)
    IN CountWord(query_upper, <<"F","R","O","M">>) + CountWord(query_upper, <<"J","O","I","N">>)

\* blocked_index with the keyword searched as a substring, the \b of the pattern forgotten
blocked_index_substring(query) ==
    LET query_upper == Upper(query)
        hits == {k \in DOMAIN BLOCKED_KEYWORDS : Contains(query_upper, BLOCKED_KEYWORDS[k])}
    IN IF hits = {} THEN 0 ELSE CHOOSE k \in hits : \A h \in hits : k <= h

\* step 6 of validate: the first keyword of the list found as a whole word, 0 if none
blocked_index(query) ==
    LET query_upper == Upper(query)
        hits == {k \in DOMAIN BLOCKED_KEYWORDS : WordSearch(query_upper, BLOCKED_KEYWORDS[k])}
    IN IF hits = {} THEN 0 ELSE CHOOSE k \in hits : \A h \in hits : k <= h

\* step 7 of validate
has_comment(query) ==
    \/ Contains(query, <<"-","-">>)
    \/ Contains(query, <<"/","*">>)
    \/ Contains(query, <<"*","/">>)

\* step 8 of validate
has_stacked(query) == Contains(RStripSemi(query), <<";">>)

\* static_checks with the stacking check moved before the keyword scan
static_checks_reordered(query) ==
    IF Len(query) > MAX_QUERY_LENGTH THEN Reject(TooLongMsg, Decimal(MAX_QUERY_LENGTH))
    ELSE IF query = <<>> \/ IsBlank(query) THEN Reject(EmptyMsg, NoArg)
    ELSE IF sqlparse_parse(query) = <<>> THEN Reject(InvalidSyntaxMsg, NoArg)
    ELSE IF query_type(query) # SELECT_KW THEN Reject(KindMsg, query_type(query))
    ELSE IF has_stacked(query) THEN Reject(MultipleMsg, NoArg)
    ELSE IF blocked_index(query) # 0 THEN Reject(BlockedMsg, BLOCKED_KEYWORDS[blocked_index(query)])
    ELSE IF has_comment(query) THEN Reject(CommentMsg, NoArg)
    ELSE IF count_tables(query) > MAX_TABLES THEN Reject(TooManyTablesMsg, Decimal(MAX_TABLES))
    ELSE Accept

\* steps 2 to 9 of validate, in the order of the code
static_checks(query) ==
    IF Len(query) > MAX_QUERY_LENGTH THEN Reject(TooLongMsg, Decimal(MAX_QUERY_LENGTH))
    ELSE IF query = <<>> \/ IsBlank(query) THEN Reject(EmptyMsg, NoArg)
    ELSE IF sqlparse_parse(query) = <<>> THEN Reject(InvalidSyntaxMsg, NoArg)
    ELSE IF query_type(query) # SELECT_KW THEN Reject(KindMsg, query_type(query))
    ELSE IF blocked_index(query) # 0 THEN Reject(BlockedMsg, BLOCKED_KEYWORDS[blocked_index(query)])
    ELSE IF has_comment(query) THEN Reject(CommentMsg, NoArg)
    ELSE IF has_stacked(query) THEN Reject(MultipleMsg, NoArg)
    ELSE IF count_tables(query) > MAX_TABLES THEN Reject(TooManyTablesMsg, Decimal(MAX_TABLES))
    ELSE Accept

(***************************************************************************)
(* Bounds and the inputs enumerated                                        *)
(***************************************************************************)
\* the clock is advanced at most this many times
MaxTicks == 2

\* the largest max_rows passed to execute_query
MaxRowCap == 2

\* the largest number of rows of the table queried
MaxTableRows == 4

\* the texts of src/test_security.py and some neighbours of them
T_Select1 == <<"S","E","L","E","C","T"," ","1">>

T_SelectUsers == <<"S","E","L","E","C","T"," ","*"," ","F","R","O","M"," ","u","s","e","r","s">>

T_SelectUsersSemi == <<"S","E","L","E","C","T"," ","*"," ","F","R","O","M"," ","u","s","e","r","s",";">>

T_SelectUsersLimit3 == <<"S","E","L","E","C","T"," ","*"," ","F","R","O","M"," ","u","s","e","r","s"," ","L","I","M","I","T"," ","3">>

T_SelectUnlimited == <<"S","E","L","E","C","T"," ","u","n","l","i","m","i","t","e","d"," ","F","R","O","M"," ","u","s","e","r","s">>

T_DropUsers == <<"D","R","O","P"," ","T","A","B","L","E"," ","u","s","e","r","s">>

T_DeleteUsers == <<"D","E","L","E","T","E"," ","F","R","O","M"," ","u","s","e","r","s"," ","W","H","E","R","E"," ","i","d"," ","="," ","1">>

T_Stacked == <<"S","E","L","E","C","T"," ","*"," ","F","R","O","M"," ","u","s","e","r","s",";"," ","D","R","O","P"," ","T","A","B","L","E"," ","u","s","e","r","s">>

T_Exec == <<"E","X","E","C"," ","s","p","_","e","x","e","c","u","t","e","s","q","l"," ","'","D","R","O","P"," ","T","A","B","L","E"," ","u","s","e","r","s","'">>

T_Grant == <<"G","R","A","N","T"," ","A","L","L"," ","P","R","I","V","I","L","E","G","E","S"," ","O","N"," ","u","s","e","r","s"," ","T","O"," ","h","a","c","k","e","r">>

T_Comment == <<"S","E","L","E","C","T"," ","*"," ","F","R","O","M"," ","u","s","e","r","s"," ","-","-"," ","W","H","E","R","E"," ","a","d","m","i","n"," ","="," ","1">>

T_OrderLimit == <<"S","E","L","E","C","T"," ","i","d",","," ","n","a","m","e"," ","F","R","O","M"," ","u","s","e","r","s"," ","O","R","D","E","R"," ","B","Y"," ","c","r","e","a","t","e","d","_","a","t"," ","D","E","S","C"," ","L","I","M","I","T"," ","1","0">>

T_LiteralDrop == <<"S","E","L","E","C","T"," ","'","d","r","o","p","'"," ","F","R","O","M"," ","u","s","e","r","s">>

T_LiteralSemi == <<"S","E","L","E","C","T"," ","'",";","'"," ","F","R","O","M"," ","u","s","e","r","s">>

TestTexts == {T_Select1, T_SelectUsers, T_SelectUsersSemi, T_SelectUsersLimit3, T_SelectUnlimited,
              T_DropUsers, T_DeleteUsers, T_Stacked, T_Exec, T_Grant, T_Comment, T_OrderLimit,
              T_LiteralDrop, T_LiteralSemi}

\* texts put together from a head, a select list, a source and a tail
Heads == {
    <<"S","E","L","E","C","T"," ">>,
    <<" ","S","E","L","E","C","T"," ">>,
    <<"S","e","l","e","c","t"," ">>,
    <<"S","E","L","E","C","T","E","D"," ">>,
    <<"D","R","O","P"," ">>,
    <<"E","X","E","C"," ">>,
    <<"I","N","S","E","R","T"," ">> }

Cols == {
    <<"1">>,
    <<"*">>,
    <<"'","d","r","o","p","'">>,
    <<"'",";","'">>,
    <<"d","r","o","p","p","e","d">>,
    <<"U","p","d","a","t","e">>,
    <<"u","n","l","i","m","i","t","e","d">> }

\* no table, one table, five tables, six tables, one table and a stacked statement
S_None == <<>>

S_One == <<" ","F","R","O","M"," ","t">>

S_Five == <<" ","F","R","O","M"," ","a"," ","N","A","T","U","R","A","L"," ","J","O","I","N"," ","b"," ","N","A","T","U","R","A","L"," ","J","O","I","N"," ","c"," ","N","A","T","U","R","A","L"," ","J","O","I","N"," ","d"," ","N","A","T","U","R","A","L"," ","J","O","I","N"," ","e">>

S_Six == <<" ","F","R","O","M"," ","a"," ","N","A","T","U","R","A","L"," ","J","O","I","N"," ","b"," ","N","A","T","U","R","A","L"," ","J","O","I","N"," ","c"," ","N","A","T","U","R","A","L"," ","J","O","I","N"," ","d"," ","N","A","T","U","R","A","L"," ","J","O","I","N"," ","e"," ","N","A","T","U","R","A","L"," ","J","O","I","N"," ","f">>

S_Stacked == <<" ","F","R","O","M"," ","t",";"," ","D","R","O","P"," ","T","A","B","L","E"," ","t">>

Sources == {S_None, S_One, S_Five, S_Six, S_Stacked}

Tails == {
    <<>>,
    <<";">>,
    <<" ","L","I","M","I","T"," ","3">>,
    <<";","\n">>,
    <<" ","-","-">>,
    <<";"," ","S","E","L","E","C","T"," ","2">> }

BuiltTexts == {h \o c \o s \o t : h \in Heads, c \in Cols, s \in Sources, t \in Tails}

BlankTexts == {<<>>, <<" ">>, <<"\n", " ">>}

\* q followed by spaces up to n characters
Pad(q, n) == q \o [i \in 1..(n - Len(q)) |-> " "]

LongTexts == {Pad(q, n) : q \in {<<>>, T_Select1, T_DropUsers, T_Comment},
                          n \in {MAX_QUERY_LENGTH, MAX_QUERY_LENGTH + 1}}

\* five tables, and a FROM that introduces no table: inside EXTRACT(...), inside a literal
T_ExtractOne == <<"S","E","L","E","C","T"," ","E","X","T","R","A","C","T","(","y","e","a","r"," ","F","R","O","M"," ","d",")">> \o S_One

T_ExtractFive == <<"S","E","L","E","C","T"," ","E","X","T","R","A","C","T","(","y","e","a","r"," ","F","R","O","M"," ","d",")">> \o S_Five

T_LiteralFromFive == <<"S","E","L","E","C","T"," ","'","s","e","n","t"," ","f","r","o","m"," ","r","o","m","e","'">> \o S_Five

TableTexts == {T_ExtractOne, T_ExtractFive, T_LiteralFromFive}

\* the texts the validator is checked on
Texts == TestTexts \cup BuiltTexts \cup BlankTexts \cup LongTexts \cup TableTexts

\* the texts the gateway is driven with
GatewayTexts == {T_Select1, T_SelectUsersLimit3, T_SelectUnlimited, T_DropUsers}

\* the values of max_rows the executor is called with
RowCaps == 1..MaxRowCap

(***************************************************************************)
(* State                                                                   *)
(***************************************************************************)
VARIABLES
    max_requests,   \* RateLimiter.max_requests
    time_window,    \* RateLimiter.time_window
    requests,       \* RateLimiter.requests: identity -> list of timestamps
    lock,           \* RateLimiter.lock: the thread holding it, or NoThread
    clock,          \* what time.time() returns
    pc,             \* per thread: its position inside RateLimiter.allow_request
    frame,          \* per thread: the locals of its allow_request call
    admitted,       \* history: per identity, the timestamps of the calls that returned True
    input,          \* the arguments of the one call of the single-call specification
    last,           \* the last completed call and what it returned
    max_iterations,     \* execute_agent: the iteration budget
    iteration,          \* execute_agent: the loop variable
    agent_scratchpad,   \* execute_agent: the transcript handed to the model
    intermediate_steps, \* execute_agent: (tool, argument, observation) of each tool call
    response,           \* execute_agent: the model output of the current iteration
    agent_pc,           \* execute_agent: the position of the episode
    returned,           \* execute_agent: the value returned
    invocations,        \* history: the outcome of each agent.invoke call
    tool_calls          \* history: each tool.func call and its outcome

limiterVars == <<max_requests, time_window, requests, lock>>

agentVars == <<max_iterations, iteration, agent_scratchpad, intermediate_steps, response, agent_pc,
               returned, invocations, tool_calls>>

vars == <<max_requests, time_window, requests, lock, clock, pc, frame, admitted, input, last, agentVars>>

Threads == {"t1", "t2"}

NoThread == "none"

\* identities that rate limiting applies to
UserIds == {"test_user", "default_user"}

\* user_id values that are falsy in Python: None and the empty string
FalsyIds == {"None", ""}

Truthy(user_id) == user_id \notin FalsyIds

(***************************************************************************)
(* RateLimiter                                                             *)
(***************************************************************************)
\* mutant: a request exactly one window old is kept
clean_old_inclusive(window, current_time) ==
    SelectSeq(window, LAMBDA req_time : current_time - req_time <= time_window)

\* mutant: nothing is ever evicted
clean_old_keeps_all(window, current_time) == window

\* the list comprehension of allow_request: keep the requests younger than the window
clean_old(window, current_time) ==
    SelectSeq(window, LAMBDA req_time : current_time - req_time < time_window)

\* at_limit with > written for >=
at_limit_off_by_one(window) == Len(window) > max_requests

\* the limit check of allow_request on the cleaned list
at_limit(window) == Len(window) >= max_requests

\* allow_request run without interruption (the lock is free and is released on return):
\* the value returned and the requests map it leaves
allow_request(reqs, user_id, current_time) ==
    LET cleaned == clean_old(reqs[user_id], current_time)
    IN IF at_limit(cleaned)
       THEN [ok |-> FALSE, requests |-> [reqs EXCEPT ![user_id] = cleaned]]
       ELSE [ok |-> TRUE, requests |-> [reqs EXCEPT ![user_id] = Append(cleaned, current_time)]]

(***************************************************************************)
(* SQLQueryValidator.validate                                              *)
(***************************************************************************)
\* static_checks on every text enumerated, computed once
static_verdict == [q \in Texts |-> static_checks(q)]

\* mutant: a call without identity is charged to the identity "default_user"
rate_check_shared(reqs, user_id, current_time) ==
    allow_request(reqs, IF Truthy(user_id) THEN user_id ELSE "default_user", current_time)

\* step 1 of validate: user_id and not self.rate_limiter.allow_request(user_id)
rate_check(reqs, user_id, current_time) ==
    IF Truthy(user_id)
    THEN allow_request(reqs, user_id, current_time)
    ELSE [ok |-> TRUE, requests |-> reqs]

\* mutant: the text is examined first, and only an admissible text is charged to the limiter
validate_static_first(query, user_id, reqs, current_time) ==
    IF static_verdict[query].valid
    THEN LET rate == rate_check(reqs, user_id, current_time)
         IN [requests |-> rate.requests,
             verdict  |-> IF ~rate.ok THEN Reject(RateLimitMsg, NoArg) ELSE Accept]
    ELSE [requests |-> reqs, verdict |-> static_verdict[query]]

\* validate(query, user_id): the verdict and the requests map it leaves
validate(query, user_id, reqs, current_time) ==
    LET rate == rate_check(reqs, user_id, current_time)
    IN [requests |-> rate.requests,
        verdict  |-> IF ~rate.ok THEN Reject(RateLimitMsg, NoArg) ELSE static_verdict[query]]

(***************************************************************************)
(* The database, as execute_query sees it: a statement with a top-level    *)
(* LIMIT n clause yields at most n rows, any other statement every row.    *)
(***************************************************************************)
LIMIT_KW == <<"L","I","M","I","T">>

RECURSIVE ParseNat(_)
\* int(digits)
ParseNat(ds) ==
    IF ds = <<>> THEN 0
    ELSE 10 * ParseNat(SubSeq(ds, 1, Len(ds) - 1))
         + ((CHOOSE d \in DOMAIN Digits : Digits[d] = ds[Len(ds)]) - 1)

\* the run of digits of s that starts at position i
DigitsAt(s, i) ==
    LET ends == {e \in (i - 1)..Len(s) :
                    /\ \A j \in i..e : s[j] \in DigitChars
                    /\ (e = Len(s) \/ s[e + 1] \notin DigitChars)}
    IN SubSeq(s, i, CHOOSE e \in ends : TRUE)

\* position i of s lies inside a '...' literal
InLiteral(s, i) == Cardinality({j \in 1..(i - 1) : s[j] = "'"}) % 2 = 1

\* the positions of the LIMIT n clauses of a statement
LimitClauses(stmt) ==
    {i \in WordMatches(Upper(stmt), LIMIT_KW) :
        /\ ~InLiteral(stmt, i)
        /\ i + 5 <= Len(stmt) /\ stmt[i + 5] = " "
        /\ DigitsAt(stmt, i + 6) # <<>>}

NoLimit == 0 - 1

\* the bound of the (last) LIMIT clause of stmt, NoLimit when it has none
db_limit(stmt) ==
    IF LimitClauses(stmt) = {} THEN NoLimit
    ELSE LET i == CHOOSE p \in LimitClauses(stmt) : \A o \in LimitClauses(stmt) : o <= p
         IN ParseNat(DigitsAt(stmt, i + 6))

\* the number of rows the database returns for a statement over a table of table_rows rows
db_rows(limit, table_rows) ==
    IF limit = NoLimit \/ table_rows <= limit THEN table_rows ELSE limit

(***************************************************************************)
(* SecureSQLExecutor.execute_query                                         *)
(***************************************************************************)
DEFAULT_MAX_ROWS == 100

DatabaseErrorMsg == "Database error: {str(e)}"

UnexpectedErrorMsg == "Unexpected error: {str(e)}"

\* what the driver may do with one statement: run it, fail to connect (nothing is
\* sent), raise SQLAlchemyError on the statement, or raise another exception
DbOutcomes == {"ok", "connect_error", "statement_error", "other_exception"}

\* the text of the driver's exception
DriverTexts == {<<"r","e","l","a","t","i","o","n">>, <<"t","i","m","e","o","u","t">>}

\* 'LIMIT' not in query_upper
lacks_limit(query) == ~Contains(Upper(query), LIMIT_KW)

\* the statement execute_query sends: LIMIT max_rows appended unless 'LIMIT' occurs in the text
rewrite(query, max_rows) ==
    IF lacks_limit(query)
    THEN RStripSemi(query) \o <<" ">> \o LIMIT_KW \o <<" ">> \o Decimal(max_rows)
    ELSE query

\* rewrite on every text and row cap enumerated, with the bound the database reads
\* off the statement, computed once
statement_of ==
    [q \in Texts |-> [m \in RowCaps \cup {DEFAULT_MAX_ROWS} |->
        LET stmt == rewrite(q, m) IN [stmt |-> stmt, limit |-> db_limit(stmt)]]]

Failure(msg, arg, sent, stmt) ==
    [success |-> FALSE, error |-> msg, arg |-> arg, sent |-> sent, stmt |-> stmt,
     data |-> <<>>, row_count |-> 0]

\* mutant: a failed execution hands back the row fetched before the failure
run_statement_partial(query, max_rows, outcome, table_rows, driver_text) ==
    IF outcome = "ok"
    THEN [success |-> TRUE, error |-> "", arg |-> NoArg, sent |-> TRUE,
          stmt |-> statement_of[query][max_rows].stmt,
          data |-> [r \in 1..db_rows(statement_of[query][max_rows].limit, table_rows) |-> r],
          row_count |-> db_rows(statement_of[query][max_rows].limit, table_rows)]
    ELSE [success |-> FALSE, error |-> DatabaseErrorMsg, arg |-> driver_text, sent |-> TRUE,
          stmt |-> statement_of[query][max_rows].stmt, data |-> <<1>>, row_count |-> 0]

\* the part of execute_query after validation succeeded
run_statement(query, max_rows, outcome, table_rows, driver_text) ==
    LET s == statement_of[query][max_rows]
        n == db_rows(s.limit, table_rows)
    IN CASE outcome = "ok" ->
                [success |-> TRUE, error |-> "", arg |-> NoArg, sent |-> TRUE, stmt |-> s.stmt,
                 data |-> [r \in 1..n |-> r], row_count |-> n]
         [] outcome = "connect_error" -> Failure(DatabaseErrorMsg, driver_text, FALSE, <<>>)
         [] outcome = "statement_error" -> Failure(DatabaseErrorMsg, driver_text, TRUE, s.stmt)
         [] OTHER -> Failure(UnexpectedErrorMsg, driver_text, TRUE, s.stmt)

\* execute_query that runs the statement whatever the verdict
execute_query_unchecked(query, user_id, max_rows, reqs, current_time, outcome, table_rows, driver_text) ==
    LET v == validate(query, user_id, reqs, current_time)
    IN [requests |-> v.requests,
        verdict  |-> v.verdict,
        result   |-> run_statement(query, max_rows, outcome, table_rows, driver_text)]

\* execute_query(query, user_id, max_rows): the result and the requests map it leaves
execute_query(query, user_id, max_rows, reqs, current_time, outcome, table_rows, driver_text) ==
    LET v == validate(query, user_id, reqs, current_time)
    IN [requests |-> v.requests,
        verdict  |-> v.verdict,
        result   |-> IF ~v.verdict.valid
                     THEN Failure(v.verdict.error, v.verdict.arg, FALSE, <<>>)
                     ELSE run_statement(query, max_rows, outcome, table_rows, driver_text)]

(***************************************************************************)
(* Initial states                                                          *)
(***************************************************************************)
\* SQLQueryValidator.__init__: RateLimiter(max_requests=10, time_window=60)
VALIDATOR_MAX_REQUESTS == 10

VALIDATOR_TIME_WINDOW == 60

NoResult == Failure("", NoArg, FALSE, <<>>)

NoCall == [op |-> "none", query |-> <<>>, user_id |-> "None", max_rows |-> 0, time |-> 0,
           before |-> <<>>, verdict |-> Accept, result |-> NoResult, table_rows |-> 0]

NoFrame == [user_id |-> "None", current_time |-> 0]

NoInput == [query |-> <<>>, user_id |-> "None"]

\* no thread is inside the limiter, nothing was called
GatewayIdle ==
    /\ lock = NoThread
    /\ clock = 0
    /\ pc = [t \in Threads |-> "idle"]
    /\ frame = [t \in Threads |-> NoFrame]
    /\ admitted = [u \in UserIds |-> <<>>]
    /\ last = NoCall

\* execute_agent is called with max_iterations=5 by stream_agent_response
DEFAULT_MAX_ITERATIONS == 5

\* no episode is running
AgentIdle ==
    /\ max_iterations = DEFAULT_MAX_ITERATIONS
    /\ iteration = 0
    /\ agent_scratchpad = <<>>
    /\ intermediate_steps = <<>>
    /\ response = <<>>
    /\ agent_pc = "idle"
    /\ returned = <<>>
    /\ invocations = <<>>
    /\ tool_calls = <<>>

\* everything but the limiter's parameters and windows and the call to make
InitRest == GatewayIdle /\ AgentIdle

\* the state after SecureSQLExecutor.__init__ (which constructs the validator and its limiter)
Init ==
    /\ max_requests = VALIDATOR_MAX_REQUESTS
    /\ time_window = VALIDATOR_TIME_WINDOW
    /\ requests = [u \in UserIds |-> <<>>]
    /\ input = NoInput
    /\ InitRest

(***************************************************************************)
(* Actions of the gateway: one call of validate or execute_query by a      *)
(* caller that finds the limiter's lock free.                              *)
(***************************************************************************)
\* the clock advances by half a window
ClockStep == IF time_window > 1 THEN time_window \div 2 ELSE 1

Tick ==
    /\ clock < MaxTicks * ClockStep
    /\ clock' = clock + ClockStep
    /\ UNCHANGED <<limiterVars, pc, frame, admitted, input, last, agentVars>>

\* the caller's window as the call finds it
WindowOf(user_id) == IF Truthy(user_id) THEN requests[user_id] ELSE <<>>

Validate(query, user_id) ==
    LET v == validate(query, user_id, requests, clock)
    IN /\ lock = NoThread
       /\ requests' = v.requests
       /\ last' = [op |-> "validate", query |-> query, user_id |-> user_id, max_rows |-> 0,
                   time |-> clock, before |-> WindowOf(user_id),
                   verdict |-> v.verdict, result |-> NoResult, table_rows |-> 0]
       /\ UNCHANGED <<max_requests, time_window, lock, clock, pc, frame, admitted, input, agentVars>>

Execute(query, user_id, max_rows, outcome, table_rows, driver_text) ==
    LET e == execute_query(query, user_id, max_rows, requests, clock, outcome, table_rows, driver_text)
    IN /\ lock = NoThread
       /\ requests' = e.requests
       /\ last' = [op |-> "execute", query |-> query, user_id |-> user_id, max_rows |-> max_rows,
                   time |-> clock, before |-> WindowOf(user_id),
                   verdict |-> e.verdict, result |-> e.result, table_rows |-> table_rows]
       /\ UNCHANGED <<max_requests, time_window, lock, clock, pc, frame, admitted, input, agentVars>>

\* the database's side of one execution: how it ends, the size of the table, the
\* driver's exception text (the last two only where they matter)
DbCases ==
    {[outcome |-> "ok", table_rows |-> n, driver_text |-> NoArg] : n \in {0, MaxTableRows}}
    \cup {[outcome |-> o, table_rows |-> 0, driver_text |-> d] :
            o \in DbOutcomes \ {"ok"}, d \in DriverTexts}

GatewayCallers == {"None", "test_user"}

GatewayValidate == \E q \in GatewayTexts, u \in GatewayCallers : Validate(q, u)

GatewayExecute ==
    \E q \in GatewayTexts, u \in GatewayCallers, m \in RowCaps, c \in DbCases :
        /\ c.driver_text \in {NoArg, CHOOSE d \in DriverTexts : TRUE}
        /\ Execute(q, u, m, c.outcome, c.table_rows, c.driver_text)

Next == Tick \/ GatewayValidate \/ GatewayExecute

Spec == Init /\ [][Next]_vars

(***************************************************************************)
(* One call on one input: the text, the caller and the caller's window are *)
(* drawn initially, and validate or execute_query is applied to them once. *)
(***************************************************************************)
\* a window with n requests made at time 0
WindowOfSize(n) == [i \in 1..n |-> 0]

\* who calls, and what the window of test_user holds then
Scenarios ==
    {[user_id |-> "None", size |-> VALIDATOR_MAX_REQUESTS],
     [user_id |-> "", size |-> VALIDATOR_MAX_REQUESTS],
     [user_id |-> "test_user", size |-> 0],
     [user_id |-> "test_user", size |-> VALIDATOR_MAX_REQUESTS - 1],
     [user_id |-> "test_user", size |-> VALIDATOR_MAX_REQUESTS]}

InitCall ==
    /\ max_requests = VALIDATOR_MAX_REQUESTS
    /\ time_window = VALIDATOR_TIME_WINDOW
    /\ \E q \in Texts, sc \in Scenarios :
          /\ input = [query |-> q, user_id |-> sc.user_id]
          /\ requests = [u \in UserIds |-> IF u = "test_user" THEN WindowOfSize(sc.size) ELSE <<>>]
    /\ InitRest

CallValidate == last = NoCall /\ Validate(input.query, input.user_id)

CallExecute ==
    /\ last = NoCall
    /\ \E m \in RowCaps, c \in DbCases :
          Execute(input.query, input.user_id, m, c.outcome, c.table_rows, c.driver_text)

NextCall == CallValidate \/ CallExecute

SpecCall == InitCall /\ [][NextCall]_vars

(***************************************************************************)
(* The query_database tool of create_sql_query_tool: one tool instance,    *)
(* with the executor, validator and limiter it constructed, called by the  *)
(* threads that run episodes.                                              *)
(***************************************************************************)
\* the identity run_query passes to execute_query
TOOL_USER_ID == "default_user"

QueryFailedPrefix == "Query failed: {result['error']}"

NoResultsMsg == "Query executed successfully but returned no results."

RowsReturnedMsg == "Query returned {row_count} row(s):"

\* data[:10] and the "... and {row_count - 10} more rows" line
MAX_ROWS_SHOWN == 10

\* the string run_query returns for a result of execute_query
tool_output(result) ==
    IF ~result.success
    THEN [text |-> QueryFailedPrefix, error |-> result.error, arg |-> result.arg, shown |-> 0, more |-> 0]
    ELSE IF result.data = <<>>
         THEN [text |-> NoResultsMsg, error |-> "", arg |-> NoArg, shown |-> 0, more |-> 0]
         ELSE [text |-> RowsReturnedMsg, error |-> "", arg |-> Decimal(result.row_count),
               shown |-> IF result.row_count > MAX_ROWS_SHOWN THEN MAX_ROWS_SHOWN ELSE result.row_count,
               more |-> IF result.row_count > MAX_ROWS_SHOWN THEN result.row_count - MAX_ROWS_SHOWN ELSE 0]

\* mutant: the tool passes no identity on
run_query_anonymous(query, reqs, current_time, outcome, table_rows, driver_text) ==
    LET e == execute_query(query, "None", DEFAULT_MAX_ROWS, reqs, current_time, outcome, table_rows, driver_text)
    IN [requests |-> e.requests, verdict |-> e.verdict, result |-> e.result, output |-> tool_output(e.result)]

\* run_query(query): execute_query(query, user_id="default_user") and the string made of its result
run_query(query, reqs, current_time, outcome, table_rows, driver_text) ==
    LET e == execute_query(query, TOOL_USER_ID, DEFAULT_MAX_ROWS, reqs, current_time, outcome, table_rows, driver_text)
    IN [requests |-> e.requests, verdict |-> e.verdict, result |-> e.result, output |-> tool_output(e.result)]

\* the texts the episodes hand to the tool
ToolTexts == {T_Select1, T_DropUsers}

\* how the database answers the tool: four rows, or SQLAlchemyError on the statement
ToolDbCases ==
    {[outcome |-> "ok", table_rows |-> MaxTableRows, driver_text |-> NoArg],
     [outcome |-> "statement_error", table_rows |-> 0, driver_text |-> CHOOSE d \in DriverTexts : TRUE]}

\* the calls of the tool followed: enough for one more than the limiter admits
MaxToolCalls == VALIDATOR_MAX_REQUESTS + 1

\* a call of the tool by thread t, and whether the tool reported the rate limit
ToolCallBy(t, limited) == [thread |-> t, name |-> "query_database", rate_limited |-> limited]

\* thread t, running an episode, calls the tool on query; the calls made are kept
\* as a bag
ToolQuery(t, query, outcome, table_rows, driver_text) ==
    LET r == run_query(query, requests, clock, outcome, table_rows, driver_text)
    IN /\ lock = NoThread
       /\ BagCardinality(tool_calls) < MaxToolCalls
       /\ requests' = r.requests
       /\ last' = [op |-> "run_query", query |-> query, user_id |-> TOOL_USER_ID,
                   max_rows |-> DEFAULT_MAX_ROWS, time |-> clock, before |-> requests[TOOL_USER_ID],
                   verdict |-> r.verdict, result |-> r.result, table_rows |-> table_rows]
       /\ tool_calls' = tool_calls (+) SetToBag({ToolCallBy(t, r.output.error = RateLimitMsg)})
       /\ UNCHANGED <<max_requests, time_window, lock, clock, pc, frame, admitted, input,
                      max_iterations, iteration, agent_scratchpad, intermediate_steps, response,
                      agent_pc, returned, invocations>>

ToolCall ==
    \E t \in Threads, q \in ToolTexts, c \in ToolDbCases :
        ToolQuery(t, q, c.outcome, c.table_rows, c.driver_text)

NextTool == Tick \/ ToolCall

SpecTool == Init /\ [][NextTool]_vars

(***************************************************************************)
(* RateLimiter.allow_request step by step, called by concurrent threads on *)
(* a limiter of its own: RateLimiter(max_requests, time_window).           *)
(***************************************************************************)
\* the largest max_requests the limiter is constructed with
MaxLimit == 2

\* the largest time_window the limiter is constructed with
MaxWindow == 2

InitLimiter ==
    /\ max_requests \in 1..MaxLimit
    /\ time_window \in 1..MaxWindow
    /\ requests = [u \in UserIds |-> <<>>]
    /\ input = NoInput
    /\ InitRest

AllowRecord(user_id, current_time, window, ret) ==
    [op |-> "allow", query |-> <<>>, user_id |-> user_id, max_rows |-> 0, time |-> current_time,
     before |-> window, verdict |-> IF ret THEN Accept ELSE Reject(RateLimitMsg, NoArg),
     result |-> NoResult, table_rows |-> 0]

\* a thread enters allow_request(user_id)
Call(t, user_id) ==
    /\ pc[t] = "idle"
    /\ pc' = [pc EXCEPT ![t] = "acquire"]
    /\ frame' = [frame EXCEPT ![t] = [user_id |-> user_id, current_time |-> 0]]
    /\ UNCHANGED <<limiterVars, clock, admitted, input, last, agentVars>>

\* a lock that never blocks
can_acquire_always(t) == TRUE

\* threading.Lock: acquire succeeds only while nobody holds the lock
can_acquire(t) == lock = NoThread

\* with self.lock:
Acquire(t) ==
    /\ pc[t] = "acquire"
    /\ can_acquire(t)
    /\ lock' = t
    /\ pc' = [pc EXCEPT ![t] = "clean"]
    /\ UNCHANGED <<max_requests, time_window, requests, clock, frame, admitted, input, last, agentVars>>

\* current_time = time.time(); self.requests[user_id] = [... cleaned ...]
Clean(t) ==
    /\ pc[t] = "clean"
    /\ frame' = [frame EXCEPT ![t].current_time = clock]
    /\ requests' = [requests EXCEPT ![frame[t].user_id] = clean_old(@, clock)]
    /\ pc' = [pc EXCEPT ![t] = "check"]
    /\ UNCHANGED <<max_requests, time_window, lock, clock, admitted, input, last, agentVars>>

\* leaving the with block releases the lock
Released(t) == IF lock = t THEN NoThread ELSE lock

\* if len(self.requests[user_id]) >= self.max_requests: return False
Check(t) ==
    /\ pc[t] = "check"
    /\ IF at_limit(requests[frame[t].user_id])
       THEN /\ pc' = [pc EXCEPT ![t] = "idle"]
            /\ lock' = Released(t)
            /\ frame' = [frame EXCEPT ![t] = NoFrame]
            /\ last' = AllowRecord(frame[t].user_id, frame[t].current_time,
                                   requests[frame[t].user_id], FALSE)
       ELSE /\ pc' = [pc EXCEPT ![t] = "append"]
            /\ UNCHANGED <<lock, frame, last>>
    /\ UNCHANGED <<max_requests, time_window, requests, clock, admitted, input, agentVars>>

\* self.requests[user_id].append(current_time); return True
AppendRequest(t) ==
    /\ pc[t] = "append"
    /\ requests' = [requests EXCEPT ![frame[t].user_id] = Append(@, frame[t].current_time)]
    /\ admitted' = [admitted EXCEPT ![frame[t].user_id] = Append(@, frame[t].current_time)]
    /\ pc' = [pc EXCEPT ![t] = "idle"]
    /\ lock' = Released(t)
    /\ frame' = [frame EXCEPT ![t] = NoFrame]
    /\ last' = AllowRecord(frame[t].user_id, frame[t].current_time,
                           requests[frame[t].user_id], TRUE)
    /\ UNCHANGED <<max_requests, time_window, clock, input, agentVars>>

NextLimiter ==
    \/ Tick
    \/ \E t \in Threads, u \in UserIds : Call(t, u)
    \/ \E t \in Threads : Acquire(t)
    \/ \E t \in Threads : Clean(t)
    \/ \E t \in Threads : Check(t)
    \/ \E t \in Threads : AppendRequest(t)

SpecLimiter == InitLimiter /\ [][NextLimiter]_vars

(***************************************************************************)
(* The agent loop, execute_agent.  Model output, observations and the      *)
(* transcript are sequences of tokens: the four markers, "\n", " " and     *)
(* words that contain no marker and no white space.                        *)
(***************************************************************************)
FinalAnswerMarker == "Final Answer:"

ActionMarker == "Action:"

ActionInputMarker == "Action Input:"

ThoughtMarker == "Thought:"

NEWLINE == "\n"

\* str.strip(): leading and trailing white space removed
Strip(s) ==
    LET solid == {i \in DOMAIN s : s[i] \notin {" ", NEWLINE}}
    IN IF solid = {} THEN <<>>
       ELSE SubSeq(s, CHOOSE i \in solid : \A j \in solid : i <= j,
                      CHOOSE i \in solid : \A j \in solid : i >= j)

\* str.split(sep): the pieces of s between the occurrences of sep
RECURSIVE Split(_, _)
Split(s, sep) ==
    LET at == {i \in DOMAIN s : s[i] = sep}
    IN IF at = {} THEN <<s>>
       ELSE LET i == CHOOSE k \in at : \A j \in at : k <= j
            IN <<SubSeq(s, 1, i - 1)>> \o Split(SubSeq(s, i + 1, Len(s)), sep)

\* "sep in s"
HasMarker(s, sep) == \E i \in DOMAIN s : s[i] = sep

RECURSIVE Join(_, _)
Join(names, sep) ==
    IF names = <<>> THEN <<>>
    ELSE IF Len(names) = 1 THEN <<names[1]>>
    ELSE <<names[1], sep>> \o Join(Tail(names), sep)

\* create_agent: tools = [create_sql_query_tool(), create_schema_info_tool()], by name
tools == <<"query_database", "get_database_schema">>

\* tool_map.keys(), in insertion order
tool_map_keys == tools

\* mutant: every name is taken for a registered tool
in_tool_map_any(name) == TRUE

\* action_part in tool_map
in_tool_map(name) == \E i \in DOMAIN tool_map_keys : name = <<tool_map_keys[i]>>

\* mutant: the whole output is the answer
final_answer_whole(resp) == Strip(resp)

\* response.split("Final Answer:")[-1].strip()
final_answer(resp) == Strip(Split(resp, FinalAnswerMarker)[Len(Split(resp, FinalAnswerMarker))])

has_action(resp) == HasMarker(resp, ActionMarker) /\ HasMarker(resp, ActionInputMarker)

action_part(resp) == Strip(Split(Split(resp, ActionMarker)[2], ActionInputMarker)[1])

action_input_part(resp) == Strip(Split(Split(resp, ActionInputMarker)[2], NEWLINE)[1])

\* mutant: the output is returned as the model wrote it
fallback_answer_raw(resp) == resp

\* "No clear action, treat as final answer": response.split("Thought:")[-1].strip()
fallback_answer(resp) == Strip(Split(resp, ThoughtMarker)[Len(Split(resp, ThoughtMarker))])

\* mutant: the entry holds the observation without the model output
scratchpad_entry_bare(resp, observation) == <<NEWLINE, "Observation: ">> \o observation \o <<NEWLINE, "Thought: ">>

\* f"\n{response}\nObservation: {observation}\nThought: "
scratchpad_entry(resp, observation) ==
    <<NEWLINE>> \o resp \o <<NEWLINE, "Observation: ">> \o observation \o <<NEWLINE, "Thought: ">>

\* f"Error - Tool '{action_part}' not found. Available tools: {', '.join(tool_map.keys())}"
tool_not_found(name) ==
    <<"Error - Tool '">> \o name \o <<"' not found. Available tools: ">> \o Join(tool_map_keys, ", ")

ErrorPrefix == "I encountered an error while processing your request: "

\* f"I encountered an error while processing your request: {str(e)}"
error_answer(e) == <<ErrorPrefix>> \o e

ThinkingLimitMsg ==
    <<"I've reached my thinking limit. Could you rephrase your question or break it into smaller parts?">>

\* mutant: the loop never ends
in_budget_forever(i) == TRUE

\* mutant: the loop runs once more than the budget
in_budget_plus_one(i) == i <= max_iterations

\* for iteration in range(max_iterations)
in_budget(i) == i < max_iterations

\* the largest iteration budget an episode is given
MaxIterations == 5

\* model outputs: a final answer, a call of each tool, two calls of tools that
\* do not exist, text without markers, an action without argument, and an output
\* that holds an action and a final answer
R_Final == <<ThoughtMarker, " ", "done", NEWLINE, FinalAnswerMarker, " ", "42", NEWLINE>>

R_Query ==
    <<ThoughtMarker, " ", "count", NEWLINE, ActionMarker, " ", "query_database", NEWLINE,
      ActionInputMarker, " ", "SELECT", " ", "1", NEWLINE>>

R_Schema ==
    <<ActionMarker, " ", "get_database_schema", NEWLINE, ActionInputMarker, " ", "users", NEWLINE,
      "Observation: ", "guessed">>

R_Unknown ==
    <<ThoughtMarker, " ", "erase", NEWLINE, ActionMarker, " ", "drop_database", NEWLINE,
      ActionInputMarker, " ", "users">>

R_Noisy ==
    <<ActionMarker, " ", "query_database", " ", "tool", NEWLINE, ActionInputMarker, " ", "SELECT", " ", "1">>

R_Plain == <<"hello", NEWLINE, ThoughtMarker, " ", "nothing", " ", "to", " ", "do", NEWLINE>>

R_NoInput == <<" ", ActionMarker, " ", "query_database", NEWLINE>>

R_Both ==
    <<ActionMarker, " ", "query_database", NEWLINE, ActionInputMarker, " ", "SELECT", " ", "1", NEWLINE,
      FinalAnswerMarker, " ", "7", " ", "rows">>

\* a draft and a final answer, each after its own marker
R_TwoFinals == <<FinalAnswerMarker, " ", "draft", NEWLINE, FinalAnswerMarker, " ", "5", " ">>

Responses == {R_Final, R_Query, R_Schema, R_Unknown, R_Noisy, R_Plain, R_NoInput, R_Both, R_TwoFinals}

\* str(e) of the exceptions agent.invoke raises
ModelErrors == {<<"429", " ", "quota", " ", "exceeded">>, <<"deadline", " ", "exceeded">>}

\* agent.invoke(...) returns a result whose content is a text, or raises
ModelOutcomes ==
    {[raised |-> FALSE, text |-> r] : r \in Responses} \cup {[raised |-> TRUE, text |-> e] : e \in ModelErrors}

\* tool.func(action_input_part) returns an observation, or raises
ToolOutcomes(name) ==
    {[raised |-> FALSE,
      text |-> IF name = <<"get_database_schema">> THEN <<"Database Schema:">>
               ELSE <<"Query returned 1 row(s):">>],
     [raised |-> TRUE, text |-> <<"connection", " ", "reset">>]}

gatewayVars == <<max_requests, time_window, requests, lock, clock, pc, frame, admitted, input, last>>

\* execute_agent is entered with an iteration budget
InitAgent ==
    /\ max_requests = VALIDATOR_MAX_REQUESTS
    /\ time_window = VALIDATOR_TIME_WINDOW
    /\ requests = [u \in UserIds |-> <<>>]
    /\ input = NoInput
    /\ GatewayIdle
    /\ max_iterations \in 0..MaxIterations
    /\ iteration = 0
    /\ agent_scratchpad = <<>>
    /\ intermediate_steps = <<>>
    /\ response = <<>>
    /\ agent_pc = "start"
    /\ returned = <<>>
    /\ invocations = <<>>
    /\ tool_calls = <<>>

\* the tool map is built, the transcript and the steps start empty
AgentStart ==
    /\ agent_pc = "start"
    /\ agent_scratchpad' = <<>>
    /\ intermediate_steps' = <<>>
    /\ iteration' = 0
    /\ agent_pc' = "loop"
    /\ UNCHANGED <<gatewayVars, max_iterations, response, returned, invocations, tool_calls>>

\* the loop goes on: the model is invoked and answers or raises
AgentInvoke ==
    /\ agent_pc = "loop"
    /\ in_budget(iteration)
    /\ \E out \in ModelOutcomes :
          /\ invocations' = Append(invocations, out)
          /\ IF out.raised
             THEN /\ returned' = error_answer(out.text)
                  /\ agent_pc' = "done"
                  /\ UNCHANGED response
             ELSE /\ response' = out.text
                  /\ agent_pc' = "parse"
                  /\ UNCHANGED returned
    /\ UNCHANGED <<gatewayVars, max_iterations, iteration, agent_scratchpad, intermediate_steps, tool_calls>>

\* the loop is over: "Max iterations reached"
AgentExhausted ==
    /\ agent_pc = "loop"
    /\ ~in_budget(iteration)
    /\ returned' = ThinkingLimitMsg
    /\ agent_pc' = "done"
    /\ UNCHANGED <<gatewayVars, max_iterations, iteration, agent_scratchpad, intermediate_steps, response,
                   invocations, tool_calls>>

\* if "Final Answer:" in response
AgentFinalAnswer ==
    /\ agent_pc = "parse"
    /\ HasMarker(response, FinalAnswerMarker)
    /\ returned' = final_answer(response)
    /\ agent_pc' = "done"
    /\ UNCHANGED <<gatewayVars, max_iterations, iteration, agent_scratchpad, intermediate_steps, response,
                   invocations, tool_calls>>

\* the action names a tool of the tool map: it is called, and returns or raises
AgentAct ==
    /\ agent_pc = "parse"
    /\ ~HasMarker(response, FinalAnswerMarker)
    /\ has_action(response)
    /\ in_tool_map(action_part(response))
    /\ \E out \in ToolOutcomes(action_part(response)) :
          /\ tool_calls' = Append(tool_calls, [iteration |-> iteration + 1, name |-> action_part(response),
                                               arg |-> action_input_part(response),
                                               raised |-> out.raised, text |-> out.text])
          /\ IF out.raised
             THEN /\ returned' = error_answer(out.text)
                  /\ agent_pc' = "done"
                  /\ UNCHANGED <<iteration, agent_scratchpad, intermediate_steps>>
             ELSE /\ agent_scratchpad' = agent_scratchpad \o scratchpad_entry(response, out.text)
                  /\ intermediate_steps' = Append(intermediate_steps,
                                                  <<action_part(response), action_input_part(response), out.text>>)
                  /\ iteration' = iteration + 1
                  /\ agent_pc' = "loop"
                  /\ UNCHANGED returned
    /\ UNCHANGED <<gatewayVars, max_iterations, response, invocations>>

\* "Invalid action": the action names no tool of the tool map
AgentUnknownTool ==
    /\ agent_pc = "parse"
    /\ ~HasMarker(response, FinalAnswerMarker)
    /\ has_action(response)
    /\ ~in_tool_map(action_part(response))
    /\ agent_scratchpad' = agent_scratchpad \o scratchpad_entry(response, tool_not_found(action_part(response)))
    /\ iteration' = iteration + 1
    /\ agent_pc' = "loop"
    /\ UNCHANGED <<gatewayVars, max_iterations, intermediate_steps, response, returned, invocations, tool_calls>>

\* "No clear action, treat as final answer"
AgentNoAction ==
    /\ agent_pc = "parse"
    /\ ~HasMarker(response, FinalAnswerMarker)
    /\ ~has_action(response)
    /\ returned' = fallback_answer(response)
    /\ agent_pc' = "done"
    /\ UNCHANGED <<gatewayVars, max_iterations, iteration, agent_scratchpad, intermediate_steps, response,
                   invocations, tool_calls>>

NextAgent ==
    \/ AgentStart
    \/ AgentInvoke
    \/ AgentExhausted
    \/ AgentFinalAnswer
    \/ AgentAct
    \/ AgentUnknownTool
    \/ AgentNoAction

SpecAgent == InitAgent /\ [][NextAgent]_vars

\* the largest iteration budget of the episodes whose progress is examined
MaxFairIterations == 2

InitAgentFair == InitAgent /\ max_iterations <= MaxFairIterations

\* the steps execute_agent takes on its own, without waiting for the model or a tool
AgentOwnStep == AgentStart \/ AgentExhausted \/ AgentFinalAnswer \/ AgentUnknownTool \/ AgentNoAction

\* execute_agent is sequential code: a step of its own that it can take, it takes.
\* agent.invoke(...) and tool.func(...) are calls into the model and the database
\* that are given no timeout: they return or raise (AgentInvoke, AgentAct) when the
\* other side answers, which nothing in the code enforces.
SpecAgentFair == InitAgentFair /\ [][NextAgent]_vars /\ WF_vars(AgentOwnStep)

(***************************************************************************)
(* Properties of the validator, the limiter and the executor               *)
(***************************************************************************)
\* the caller's window as the last call found it, as a requests map
RequestsBefore == [u \in UserIds |-> last.before]

\* the positions of the caller's earlier requests that were younger than the window
\* when the last call was made
LiveBefore == {i \in DOMAIN last.before : last.time - last.before[i] < time_window}

\* the last call was made by a rate limited caller
RateViolated == Truthy(last.user_id) /\ Cardinality(LiveBefore) >= max_requests

\* the blocked keywords each text holds as a whole word, in any letter case
keywords_in == [q \in Texts |-> {k \in DOMAIN BLOCKED_KEYWORDS : WordSearch(Upper(q), BLOCKED_KEYWORDS[k])}]

\* check k of the validator (2 to 9, in the order of section 4.1) is violated by q
StaticViolated(q, k) ==
    CASE k = 2 -> Len(q) > MAX_QUERY_LENGTH
      [] k = 3 -> \A i \in DOMAIN q : IsSpace(q[i])
      [] k = 4 -> sqlparse_parse(q) = <<>>
      [] k = 5 -> sqlparse_parse(q) # <<>> /\ get_type(sqlparse_parse(q)[1]) # SELECT_KW
      [] k = 6 -> keywords_in[q] # {}
      [] k = 7 -> \E i \in 1..(Len(q) - 1) : <<q[i], q[i + 1]>> \in {<<"-","-">>, <<"/","*">>, <<"*","/">>}
      [] k = 8 -> \E i \in DOMAIN q : q[i] = ";" /\ \E j \in (i + 1)..Len(q) : q[j] # ";"
      [] k = 9 -> count_tables(q) > MAX_TABLES

static_violations == [q \in Texts |-> {k \in 2..9 : StaticViolated(q, k)}]

\* the checks the last call's arguments violate
Violations == (IF RateViolated THEN {1} ELSE {}) \cup static_violations[last.query]

ReasonOf == <<RateLimitMsg, TooLongMsg, EmptyMsg, InvalidSyntaxMsg, KindMsg, BlockedMsg,
              CommentMsg, MultipleMsg, TooManyTablesMsg>>

\* C1: execute_query on a text that validate rejects returns a failure whose error
\* is the validator's reason and sends nothing to the database; a statement that
\* reaches the database comes from a text validate accepted, is a SELECT and holds
\* no blocked keyword.
C1_RejectedNeverSent ==
    last.op = "execute" =>
        LET v == validate(last.query, last.user_id, RequestsBefore, last.time).verdict
        IN /\ ~v.valid =>
                /\ ~last.result.success
                /\ last.result.error = v.error
                /\ last.result.arg = v.arg
                /\ ~last.result.sent
                /\ last.result.data = <<>>
           /\ last.result.sent =>
                /\ v.valid
                /\ Violations = {}
                /\ get_type(last.result.stmt) = SELECT_KW
                /\ \A k \in DOMAIN BLOCKED_KEYWORDS :
                      ~WordSearch(Upper(last.result.stmt), BLOCKED_KEYWORDS[k])

\* a DROP statement was submitted through execute_query and refused
C1_Witness ==
    /\ last.op = "execute"
    /\ last.query = T_DropUsers
    /\ ~last.result.success
    /\ ~last.result.sent

\* C2 as claimed: whenever the text holds a blocked keyword as a whole word, validate
\* rejects it with a reason that names that keyword.
C2_KeywordNamed ==
    last.op = "validate" =>
        \A k \in keywords_in[last.query] :
            /\ ~last.verdict.valid
            /\ Contains(last.verdict.arg, BLOCKED_KEYWORDS[k])

\* a ';' of q outside a '...' literal with further text, not blank and not ';', after it
StackedAfterSelect(q) ==
    /\ sqlparse_parse(q) # <<>>
    /\ get_type(sqlparse_parse(q)[1]) = SELECT_KW
    /\ \E i \in DOMAIN q :
          /\ q[i] = ";"
          /\ ~InLiteral(q, i)
          /\ \E j \in (i + 1)..Len(q) : q[j] # ";" /\ ~IsSpace(q[j])

stacked_texts == {q \in Texts : StackedAfterSelect(q)}

\* C3 as claimed: a SELECT followed by ';' and a further statement is rejected with
\* the multiple-statements reason (the caller not being rate limited).
C3_StackedReason ==
    (last.op = "validate" /\ ~RateViolated /\ last.query \in stacked_texts) =>
        /\ ~last.verdict.valid
        /\ last.verdict.error = MultipleMsg

SelectHeads == {<<"S","E","L","E","C","T"," ">>, <<" ","S","E","L","E","C","T"," ">>,
                <<"S","e","l","e","c","t"," ">>}

ValidCols == {<<"1">>, <<"'","d","r","o","p","'">>, <<"'",";","'">>,
              <<"d","r","o","p","p","e","d">>, <<"u","n","l","i","m","i","t","e","d">>}

ValidTails == {<<>>, <<";">>, <<" ","L","I","M","I","T"," ","3">>}

ValidSelects ==
    {h \o c \o s \o t : h \in SelectHeads, c \in ValidCols, s \in {S_None, S_One, S_Five}, t \in ValidTails}
    \cup {h \o <<"*">> \o s \o t : h \in SelectHeads, s \in {S_One, S_Five}, t \in ValidTails}
    \cup {T_Select1, T_SelectUsers, T_SelectUsersSemi, T_SelectUsersLimit3, T_SelectUnlimited,
          T_OrderLimit, T_LiteralDrop, T_LiteralSemi}

BeginsWithSelect(q) ==
    \E i \in DOMAIN q :
        /\ \A j \in 1..(i - 1) : IsSpace(q[j])
        /\ MatchAt(Upper(q), i, SELECT_KW)
        /\ (i + 6 > Len(q) \/ ~IsWordChar(q[i + 6]))

\* the texts that the textual policy lets through
policy_clean ==
    {q \in Texts :
        /\ Len(q) <= MAX_QUERY_LENGTH
        /\ BeginsWithSelect(q)
        /\ keywords_in[q] = {}
        /\ ~Contains(q, <<"-","-">>) /\ ~Contains(q, <<"/","*">>) /\ ~Contains(q, <<"*","/">>)
        /\ \A i \in DOMAIN q : q[i] = ";" => \A j \in (i + 1)..Len(q) : q[j] = ";"
        /\ CountWord(Upper(q), <<"F","R","O","M">>) + CountWord(Upper(q), <<"J","O","I","N">>) <= MAX_TABLES}

AdmittedWithin(u, now) ==
    {i \in DOMAIN admitted[u] : admitted[u][i] <= now /\ now - admitted[u][i] < time_window}

IsSuffix(s, full) == Len(s) <= Len(full) /\ s = SubSeq(full, Len(full) - Len(s) + 1, Len(full))

\* C6: under any interleaving of allow_request calls, at every instant at most
\* max_requests admissions of one identity lie in the window ending at that instant,
\* and an identity's window holds its own latest admissions and nothing else.
C6_AtMostNPerWindow ==
    \A u \in UserIds :
        /\ \A now \in 0..(MaxTicks * ClockStep) : Cardinality(AdmittedWithin(u, now)) <= max_requests
        /\ IsSuffix(requests[u], admitted[u])

\* one identity has used up its window while the other identity was admitted too
C6_Witness ==
    \E u \in UserIds, o \in UserIds :
        /\ u # o
        /\ Cardinality(AdmittedWithin(u, clock)) = max_requests
        /\ max_requests > 1
        /\ admitted[o] # <<>>
        /\ last.op = "allow" /\ last.user_id = u /\ ~last.verdict.valid

\* C7: a validate call of an identified caller finds the requests younger than the
\* window; it is let past the rate check, and its time recorded after them, exactly
\* when they are fewer than max_requests, and otherwise is rejected as rate limited
\* with only the expired requests dropped.  Within the first window after an empty
\* start every call is recorded, so the 11th call is the first one rejected.
C7_AdmitIffBelowLimit ==
    (last.op = "validate" /\ Truthy(last.user_id)) =>
        LET live == SelectSeq(last.before, LAMBDA r : last.time - r < time_window)
        IN /\ IF Len(live) < max_requests
              THEN /\ last.verdict.error # RateLimitMsg
                   /\ requests[last.user_id] = Append(live, last.time)
              ELSE /\ last.verdict = Reject(RateLimitMsg, NoArg)
                   /\ requests[last.user_id] = live
           /\ last.time < time_window =>
                /\ live = last.before
                /\ (last.verdict.error = RateLimitMsg) = (Len(last.before) = VALIDATOR_MAX_REQUESTS)

\* the 11th "SELECT 1" of one identity within the first window is rejected
C7_Witness ==
    /\ last.op = "validate"
    /\ last.query = T_Select1
    /\ last.user_id = "test_user"
    /\ last.time < time_window
    /\ Len(last.before) = 10
    /\ last.verdict = Reject(RateLimitMsg, NoArg)
    /\ Len(requests["test_user"]) = 10

\* C8 as claimed: a successful execute_query returns at most max_rows rows.
C8_RowCap ==
    (last.op = "execute" /\ last.result.success) => last.result.row_count <= last.max_rows

\* the model output is an action with an argument and no final answer
IsActionOutput(out) ==
    /\ ~out.raised
    /\ ~HasMarker(out.text, FinalAnswerMarker)
    /\ HasMarker(out.text, ActionMarker)
    /\ HasMarker(out.text, ActionInputMarker)

\* so far the model emitted an action on every invocation and every tool call returned
AlwaysAction ==
    /\ \A i \in DOMAIN invocations : IsActionOutput(invocations[i])
    /\ \A j \in DOMAIN tool_calls : ~tool_calls[j].raised

\* C9: with a model that emits an action on every invocation and tools that return,
\* every model invocation uses up one iteration of the loop, so that execute_agent
\* returns only after exactly max_iterations model invocations, and then returns the
\* "rephrase your question" message.  In every episode the model is invoked at most
\* max_iterations times and a tool at most once per model invocation.
C9_ExactBudgetThenRephrase ==
    /\ Len(invocations) <= max_iterations
    /\ Len(tool_calls) <= Len(invocations)
    /\ AlwaysAction =>
          /\ agent_pc = "done" => (Len(invocations) = max_iterations /\ returned = ThinkingLimitMsg)
          /\ agent_pc = "loop" => iteration = Len(invocations)
          /\ agent_pc = "parse" => iteration = Len(invocations) - 1
          /\ agent_pc \in {"start", "loop", "parse", "done"}

\* an episode with the default budget of 5 that called tools, named an unknown tool
\* and ran out of iterations
C9_Witness ==
    /\ agent_pc = "done"
    /\ AlwaysAction
    /\ max_iterations = DEFAULT_MAX_ITERATIONS
    /\ Len(invocations) = 5
    /\ returned = ThinkingLimitMsg
    /\ tool_calls # <<>>
    /\ Len(tool_calls) < 5

\* the model output names a tool that is not registered
NamesUnknownTool(out) ==
    /\ IsActionOutput(out)
    /\ action_part(out.text) \notin {<<"query_database">>, <<"get_database_schema">>}

\* the observation of iteration k: what the tool returned, or the tool-not-found text
ObservationOf(k) ==
    IF NamesUnknownTool(invocations[k])
    THEN <<"Error - Tool '">> \o action_part(invocations[k].text)
         \o <<"' not found. Available tools: ", "query_database", ", ", "get_database_schema">>
    ELSE LET j == CHOOSE c \in DOMAIN tool_calls : tool_calls[c].iteration = k
         IN tool_calls[j].text

\* the transcript after k iterations, from the history of the episode
RECURSIVE Transcript(_)
Transcript(k) ==
    IF k = 0 THEN <<>>
    ELSE Transcript(k - 1)
         \o <<NEWLINE>> \o invocations[k].text \o <<NEWLINE, "Observation: ">> \o ObservationOf(k)
         \o <<NEWLINE, "Thought: ">>

\* C10: once the controller has dealt with a model output that names an unknown
\* tool, no tool was invoked in that iteration, the transcript ends that iteration
\* with the output and the observation that the tool was not found and lists both
\* registered tools, and the episode has not returned unless the iteration budget
\* is spent: the model is invoked again.
C10_UnknownToolObserved ==
    \A i \in DOMAIN invocations :
        (NamesUnknownTool(invocations[i]) /\ (i < Len(invocations) \/ agent_pc \in {"loop", "done"})) =>
            /\ \A j \in DOMAIN tool_calls : tool_calls[j].iteration # i
            /\ Len(agent_scratchpad) >= Len(Transcript(i))
            /\ SubSeq(agent_scratchpad, 1, Len(Transcript(i))) = Transcript(i)
            /\ i = Len(invocations) =>
                  /\ agent_scratchpad = Transcript(i)
                  /\ iteration = i
                  /\ IF i < max_iterations
                     THEN agent_pc = "loop" /\ in_budget(iteration)
                     ELSE agent_pc = "done" => returned = ThinkingLimitMsg

\* the model named an unknown tool, was invoked again and then called a tool
C10_Witness ==
    \E i \in DOMAIN invocations :
        /\ NamesUnknownTool(invocations[i])
        /\ i < Len(invocations)
        /\ \E j \in DOMAIN tool_calls : tool_calls[j].iteration > i

\* the tokens of s after the last occurrence of marker (all of s when there is none)
AfterLast(s, marker) ==
    LET at == {i \in DOMAIN s : s[i] = marker}
    IN IF at = {} THEN s
       ELSE SubSeq(s, (CHOOSE i \in at : \A j \in at : i >= j) + 1, Len(s))

\* s without its leading and trailing white space
Trimmed(s) ==
    IF \A i \in DOMAIN s : s[i] \in {" ", NEWLINE} THEN <<>>
    ELSE LET a == CHOOSE i \in DOMAIN s : s[i] \notin {" ", NEWLINE} /\ \A j \in 1..(i - 1) : s[j] \in {" ", NEWLINE}
             b == CHOOSE i \in DOMAIN s : s[i] \notin {" ", NEWLINE} /\ \A j \in (i + 1)..Len(s) : s[j] \in {" ", NEWLINE}
         IN SubSeq(s, a, b)

\* no tool was invoked in iteration i
NoToolIn(i) == \A j \in DOMAIN tool_calls : tool_calls[j].iteration # i

\* C11: a model output that holds the final-answer marker ends the episode: it is
\* the last output of the episode, the value returned is the text after the (last)
\* final-answer marker without surrounding white space, and no tool is invoked in
\* that iteration, also when the output holds an action and an action argument.
C11_FinalAnswerWins ==
    \A i \in DOMAIN invocations :
        (~invocations[i].raised /\ HasMarker(invocations[i].text, FinalAnswerMarker)) =>
            /\ i = Len(invocations)
            /\ agent_pc \in {"parse", "done"}
            /\ NoToolIn(i)
            /\ agent_pc = "done" => returned = Trimmed(AfterLast(invocations[i].text, FinalAnswerMarker))

\* an output with an action, an action argument and a final answer was answered
C11_Witness ==
    /\ agent_pc = "done"
    /\ invocations # <<>>
    /\ invocations[Len(invocations)] = [raised |-> FALSE, text |-> R_Both]
    /\ returned = <<"7", " ", "rows">>
    /\ Len(invocations) > 1

\* the model output holds no final-answer marker and not both action markers
IsPlainOutput(out) ==
    /\ ~out.raised
    /\ ~HasMarker(out.text, FinalAnswerMarker)
    /\ ~(HasMarker(out.text, ActionMarker) /\ HasMarker(out.text, ActionInputMarker))

\* C12 as claimed: an output without final-answer marker and without both action
\* markers ends the episode with the raw output returned unaltered, no tool invoked.
C12_RawOutputReturned ==
    \A i \in DOMAIN invocations :
        (IsPlainOutput(invocations[i]) /\ agent_pc = "done") =>
            /\ i = Len(invocations)
            /\ NoToolIn(i)
            /\ returned = invocations[i].text

\* C12, amended: such an output ends the episode in that iteration with no tool
\* invoked, and the value returned is the part of the output after its last
\* "Thought:" marker (the whole output when it has none) without surrounding
\* white space.
C12_FallbackAnswer ==
    \A i \in DOMAIN invocations :
        IsPlainOutput(invocations[i]) =>
            /\ i = Len(invocations)
            /\ agent_pc \in {"parse", "done"}
            /\ NoToolIn(i)
            /\ agent_pc = "done" => returned = Trimmed(AfterLast(invocations[i].text, ThoughtMarker))

\* an output with text before and after a "Thought:" marker was answered with the text after it
C12_Witness ==
    /\ agent_pc = "done"
    /\ invocations # <<>>
    /\ invocations[Len(invocations)] = [raised |-> FALSE, text |-> R_Plain]
    /\ returned = <<"nothing", " ", "to", " ", "do">>
    /\ returned # R_Plain

\* C13 as claimed: when the call of a registered tool raises, the episode does not
\* end: the controller is back in the loop for the next iteration with the
\* transcript extended by that iteration.
C13_ToolFailureObserved ==
    \A j \in DOMAIN tool_calls :
        tool_calls[j].raised =>
            /\ agent_pc # "done" \/ Len(invocations) > tool_calls[j].iteration \/ returned = ThinkingLimitMsg
            /\ iteration >= tool_calls[j].iteration
            /\ agent_scratchpad # <<>>

\* C14 as claimed: when agent.invoke raises, the episode ends and the text returned
\* is the same for every failure: it holds nothing of the exception's text.
C14_GenericApology ==
    \A i \in DOMAIN invocations :
        invocations[i].raised =>
            /\ agent_pc = "done"
            /\ \A e \in ModelErrors : returned = error_answer(e)
            /\ \A k \in DOMAIN returned : \A n \in DOMAIN invocations[i].text : returned[k] # invocations[i].text[n]

\* C15 as claimed: a thread that holds the lock in allow_request for one identity
\* never keeps a thread that calls allow_request for another identity from
\* acquiring its lock.
C15_IdentitiesDoNotBlock ==
    \A t \in Threads, o \in Threads :
        (lock = t /\ pc[o] = "acquire" /\ frame[o].user_id # frame[t].user_id) => can_acquire(o)

\* the timestamps of window lie in the window that ends at now, (now - time_window, now]
AllLive(window, now) ==
    \A i \in DOMAIN window : window[i] <= now /\ now - window[i] < time_window

\* C16: after every allow_request call, admitted or denied, the identity's list
\* holds only timestamps of the window ending at the call's time, in non-decreasing
\* order, and at most max_requests of them; and whenever a call compares the length
\* of the list with the limit, the list has been cleaned at the call's time.
C16_WindowAfterAllow ==
    /\ last.op = "allow" =>
          LET window == requests[last.user_id]
          IN /\ AllLive(window, last.time)
             /\ \A i \in DOMAIN window : \A j \in DOMAIN window : i <= j => window[i] <= window[j]
             /\ Len(window) <= max_requests
    /\ \A t \in Threads :
          pc[t] \in {"check", "append"} =>
              /\ AllLive(requests[frame[t].user_id], frame[t].current_time)
              /\ frame[t].current_time = clock \/ frame[t].current_time < clock

\* a denied call that left a full window behind after older requests had been evicted
C16_Witness ==
    /\ last.op = "allow"
    /\ ~last.verdict.valid
    /\ last.time > 0
    /\ Len(requests[last.user_id]) = max_requests
    /\ Len(admitted[last.user_id]) > Len(requests[last.user_id])

\* the last call was a denial of identity u, and u was not admitted since
DeniedAndIdle(u) ==
    /\ last.op = "allow"
    /\ last.user_id = u
    /\ ~last.verdict.valid
    /\ IsSuffix(last.before, admitted[u])

\* C17: an identity is denied only while max_requests of its admissions lie in the
\* window ending at the time of the call; and after a denial, with no admission
\* since, a call made when the oldest recorded timestamp is more than time_window
\* old finds fewer than max_requests requests left and is admitted.
C17_DenialIsTransient ==
    /\ (last.op = "allow" /\ ~last.verdict.valid) =>
          Cardinality(AdmittedWithin(last.user_id, last.time)) >= max_requests
    /\ \A t \in Threads :
          (/\ DeniedAndIdle(frame[t].user_id)
           /\ pc[t] \in {"check", "append"}
           /\ frame[t].current_time - last.before[1] > time_window) =>
              /\ Len(requests[frame[t].user_id]) < max_requests
              /\ ~at_limit(requests[frame[t].user_id])

\* after a denial the identity waited until its oldest request was more than a
\* window old, called again and passed the limit check
C17_Witness ==
    \E t \in Threads :
        /\ DeniedAndIdle(frame[t].user_id)
        /\ pc[t] = "append"
        /\ frame[t].current_time - last.before[1] > time_window
        /\ Len(last.before) = max_requests

\* C18: whatever the text, the caller and the outcome at the database, execute_query
\* returns a result: either a success that was sent, with no error and row_count
\* equal to the number of rows in data, or a failure with an error message, no rows
\* and row_count 0.
C18_ResultOrFailure ==
    last.op = "execute" =>
        \/ /\ last.result.success
           /\ last.result.sent
           /\ last.result.error = ""
           /\ last.result.row_count = Len(last.result.data)
        \/ /\ ~last.result.success
           /\ last.result.error \in {RateLimitMsg, TooLongMsg, EmptyMsg, InvalidSyntaxMsg, KindMsg, BlockedMsg,
                                     CommentMsg, MultipleMsg, TooManyTablesMsg, DatabaseErrorMsg,
                                     UnexpectedErrorMsg}
           /\ last.result.data = <<>>
           /\ last.result.row_count = 0

\* an admissible statement was sent and the driver raised an exception that is no
\* SQLAlchemyError
C18_Witness ==
    /\ last.op = "execute"
    /\ last.verdict.valid
    /\ last.result.sent
    /\ ~last.result.success
    /\ last.result.error = UnexpectedErrorMsg

\* C19 as claimed: the error of a failed execution of an admissible text holds
\* nothing of the driver's exception text.
C19_NoDriverText ==
    (last.op = "execute" /\ last.verdict.valid /\ ~last.result.success) => last.result.arg = NoArg

IsPrefix(s, full) == Len(s) <= Len(full) /\ s = SubSeq(full, 1, Len(s))

\* C21: the transcript starts empty and is, in every state, the entries of the
\* iterations completed so far in their order, one entry of model output and
\* observation per Acting step, whether the tool was known or not; a step either
\* leaves the transcript as it is or, when it completes an iteration, appends to it,
\* so that no entry is removed or rewritten.
C21_TranscriptAppendOnly ==
    /\ [](/\ agent_scratchpad = Transcript(iteration)
          /\ iteration <= Len(invocations)
          /\ agent_pc = "start" => agent_scratchpad = <<>>)
    /\ [][/\ IsPrefix(agent_scratchpad, agent_scratchpad')
          /\ agent_scratchpad' # agent_scratchpad =>
                (agent_pc = "parse" /\ iteration' = iteration + 1 /\ invocations' = invocations)
          /\ iteration' # iteration => Len(agent_scratchpad') > Len(agent_scratchpad)]_vars

\* the transcript holds an entry of a tool call after an entry of an unknown tool
C21_Witness ==
    /\ iteration = 3
    /\ NamesUnknownTool(invocations[1])
    /\ ~NamesUnknownTool(invocations[2])
    /\ agent_scratchpad = Transcript(3)
    /\ Len(Transcript(1)) < Len(Transcript(2))

\* C30: every tool invocation belongs to the iteration of one model invocation and
\* no two to the same, so that tool invocations <= model invocations <=
\* max_iterations in every state; and once the episode has returned, the model and
\* the tools are invoked no more and the value returned stays.
C30_InvocationCounts ==
    /\ [](/\ Len(tool_calls) <= Len(invocations)
          /\ Len(invocations) <= max_iterations
          /\ \A j \in DOMAIN tool_calls :
                /\ tool_calls[j].iteration \in DOMAIN invocations
                /\ ~invocations[tool_calls[j].iteration].raised
                /\ \A k \in DOMAIN tool_calls : j < k => tool_calls[j].iteration < tool_calls[k].iteration)
    /\ [][agent_pc = "done" =>
            (invocations' = invocations /\ tool_calls' = tool_calls /\ returned' = returned /\ agent_pc' = "done")]_vars

\* an episode that invoked the model as often as the budget allows and a tool each
\* time but the last, and returned
C30_Witness ==
    /\ agent_pc = "done"
    /\ max_iterations > 1
    /\ Len(invocations) = max_iterations
    /\ Len(tool_calls) = max_iterations - 1
    /\ returned # ThinkingLimitMsg

\* C22 as claimed: every episode reaches a terminal state, also when a model
\* invocation or a tool invocation does not return on its own.
C22_EpisodeTerminates == <>(agent_pc = "done")

\* the call reached check k of section 4.1: it violates none of the checks before it
Reached(k) == \A v \in Violations : v >= k

\* a ';' of q with text after it that is neither white space nor ';'
SemicolonBeforeContent(q) ==
    \E i \in DOMAIN q : q[i] = ";" /\ \E j \in (i + 1)..Len(q) : q[j] # ";" /\ ~IsSpace(q[j])

semicolon_before_content == [q \in Texts |-> SemicolonBeforeContent(q)]

\* C23 as claimed: a text that reaches the stacking check is rejected by it exactly
\* when a ';' occurs before further non-blank content; a statement that ends in ';'
\* followed by white space only passes the check.
C23_StackingAfterTrimming ==
    (last.op = "validate" /\ Reached(8)) =>
        (last.verdict.error = MultipleMsg) = semicolon_before_content[last.query]

\* C24 as claimed: the statement sent for an admissible text without a LIMIT clause
\* of its own is the text without its trailing ';' and with LIMIT max_rows appended,
\* also when the letters LIMIT occur inside an identifier or a literal.
C24_LimitAppended ==
    (last.op = "execute" /\ last.result.sent /\ LimitClauses(last.query) = {}) =>
        last.result.stmt = RStripSemi(last.query) \o <<" ","L","I","M","I","T"," ">> \o Decimal(last.max_rows)

\* w stands at position i of the upper-cased text u as a whole word
IsWordAt(u, i, w) ==
    /\ u[i] = w[1]
    /\ MatchAt(u, i, w)
    /\ (i = 1 \/ ~IsWordChar(u[i - 1]))
    /\ (i + Len(w) > Len(u) \/ ~IsWordChar(u[i + Len(w)]))

\* the positions of the words FROM and JOIN of q, in any letter case
FromJoinWords(q) ==
    LET u == Upper(q)
    IN {i \in DOMAIN q : IsWordAt(u, i, <<"F","R","O","M">>) \/ IsWordAt(u, i, <<"J","O","I","N">>)}

\* position i of q lies inside the parentheses of EXTRACT(...)
InExtract(q, i) ==
    \E j \in 1..(i - 1) :
        /\ q[j] \in {"E", "e"}
        /\ MatchAt(Upper(SubSeq(q, j, i)), 1, <<"E","X","T","R","A","C","T","(">>)
        /\ \A k \in j..i : q[k] # ")"

\* the FROM and JOIN words that introduce a table
from_join_words == [q \in Texts |-> FromJoinWords(q)]

table_clauses == [q \in Texts |-> {i \in from_join_words[q] : ~InLiteral(q, i) /\ ~InExtract(q, i)}]

\* C26 as claimed: a text that reaches the table check is rejected by it exactly
\* when it has more than 5 table-introducing FROM and JOIN clauses; a FROM inside
\* EXTRACT(...) or inside a literal is not counted.
C26_TableClausesCounted ==
    (last.op = "validate" /\ Reached(9)) =>
        last.verdict.valid = (Cardinality(table_clauses[last.query]) <= MAX_TABLES)

\* C26, amended: a text that reaches the table check is rejected exactly when the
\* words FROM and JOIN occur in it more than 5 times in total, wherever they occur:
\* 5 occurrences pass, 6 are rejected with the reason that names the limit 5, and a
\* FROM inside EXTRACT(...) or inside a string literal counts like any other.
C26_FromJoinWordsCounted ==
    (last.op = "validate" /\ Reached(9)) =>
        IF Cardinality(from_join_words[last.query]) <= 5
        THEN last.verdict.valid
        ELSE last.verdict = Reject(TooManyTablesMsg, <<"5">>)

\* a SELECT over five tables with EXTRACT(year FROM d) was rejected for its tables
C26_Witness ==
    /\ last.op = "validate"
    /\ last.query = T_ExtractFive
    /\ Cardinality(table_clauses[last.query]) = 5
    /\ Cardinality(from_join_words[last.query]) = 6
    /\ last.verdict = Reject(TooManyTablesMsg, <<"5">>)

\* C25 as claimed: a call at time now evicts the timestamps t < now - W; one that is
\* exactly W old stays in the window and counts toward the limit in that call.
C25_EvictsOlderThanWindow ==
    (last.op \in {"validate", "execute"} /\ Truthy(last.user_id)) =>
        LET kept == SelectSeq(last.before, LAMBDA t : t >= last.time - time_window)
        IN /\ IsPrefix(kept, requests[last.user_id])
           /\ (last.verdict.error = RateLimitMsg) = (Len(kept) >= max_requests)

\* C25, amended: a call at time now evicts exactly the timestamps t <= now - W and
\* keeps the others in their order; a timestamp that is exactly W old is evicted and
\* does not count toward the limit, so a caller whose max_requests requests are all
\* exactly W old is admitted and is left with a window that holds this call only.
C25_EvictsAtWindowAge ==
    (last.op \in {"validate", "execute"} /\ Truthy(last.user_id)) =>
        LET evicted == {i \in DOMAIN last.before : last.before[i] <= last.time - time_window}
            kept == SelectSeq(last.before, LAMBDA t : t > last.time - time_window)
        IN /\ IsPrefix(kept, requests[last.user_id])
           /\ Len(requests[last.user_id]) <= Len(kept) + 1
           /\ \A i \in evicted : last.before[i] \notin Range(requests[last.user_id]) \ {last.time}
           /\ (last.verdict.error = RateLimitMsg) = (Len(last.before) - Cardinality(evicted) >= max_requests)
           /\ evicted = DOMAIN last.before =>
                (last.verdict.error # RateLimitMsg /\ requests[last.user_id] = <<last.time>>)

\* a caller whose ten requests were all exactly one window old was admitted
C25_Witness ==
    /\ last.op = "validate"
    /\ last.user_id = "test_user"
    /\ Len(last.before) = max_requests
    /\ \A i \in DOMAIN last.before : last.before[i] = last.time - time_window
    /\ last.verdict.valid
    /\ requests["test_user"] = <<last.time>>

\* C27: a validate call of an identified caller that is not rate limited leaves its
\* time at the end of the caller's window whether the text is then accepted or
\* rejected by a later check, and a caller with max_requests requests in the window
\* is rejected as rate limited whatever the text; so the call that follows a rejected
\* text which filled the window is rate limited while the window lasts.
C27_RejectedTextIsCharged ==
    /\ []((last.op = "validate" /\ Truthy(last.user_id)) =>
            IF RateViolated
            THEN last.verdict = Reject(RateLimitMsg, NoArg)
            ELSE /\ last.verdict = static_verdict[last.query]
                 /\ Len(requests[last.user_id]) = Cardinality(LiveBefore) + 1
                 /\ requests[last.user_id][Len(requests[last.user_id])] = last.time)
    /\ [][(/\ last.op = "validate"
           /\ Truthy(last.user_id)
           /\ ~last.verdict.valid
           /\ last.verdict.error # RateLimitMsg
           /\ Len(requests[last.user_id]) = max_requests
           /\ clock - requests[last.user_id][1] < time_window
           /\ clock' = clock
           /\ last'.op = "validate"
           /\ last'.user_id = last.user_id
           /\ last' # last)
          => (last'.verdict = Reject(RateLimitMsg, NoArg) /\ requests' = requests)]_vars

\* a DROP by test_user was rejected for its kind and took the last place of the window
C27_Witness ==
    /\ last.op = "validate"
    /\ last.user_id = "test_user"
    /\ last.query = T_DropUsers
    /\ last.verdict.error = KindMsg
    /\ Len(requests["test_user"]) = max_requests
    /\ requests["test_user"][max_requests] = last.time
    /\ clock - requests["test_user"][1] < time_window

\* C28: a validate call without identity returns the verdict of the static checks,
\* never the rate-limit reason, and no step in which the last call is one without
\* identity changes any identity's window.
C28_AnonymousNotLimited ==
    /\ []((last.op = "validate" /\ ~Truthy(last.user_id)) =>
            /\ last.verdict = static_verdict[last.query]
            /\ last.verdict.error # RateLimitMsg
            /\ last.before = <<>>)
    /\ [][requests' # requests => (Truthy(last'.user_id) /\ last'.time = clock)]_vars

\* an admissible text was accepted without identity while the window of test_user was full
C28_Witness ==
    /\ last.op = "validate"
    /\ ~Truthy(last.user_id)
    /\ last.query = T_Select1
    /\ last.verdict.valid
    /\ Len(requests["test_user"]) = max_requests
    /\ clock - requests["test_user"][1] < time_window

\* C29: every call of the query_database tool is charged to the identity
\* "default_user", whichever thread makes it, and to no other identity: the call is
\* rejected as rate limited, and the tool returns the failure text with that reason,
\* exactly when max_requests calls of the tool, by whatever threads, are in the
\* window, so no call is reported as rate limited before max_requests calls were made.
C29_ToolSharesOneWindow ==
    last.op = "run_query" =>
        /\ last.user_id = "default_user"
        /\ \A u \in UserIds \ {"default_user"} : requests[u] = <<>>
        /\ Len(requests["default_user"]) <= max_requests
        /\ Len(requests["default_user"]) <=
              BagCardinality(tool_calls) - Cardinality({t \in Threads : BagIn(ToolCallBy(t, TRUE), tool_calls)})
        /\ (\E t \in Threads : BagIn(ToolCallBy(t, TRUE), tool_calls)) =>
              BagCardinality(tool_calls) > max_requests
        /\ IF Cardinality(LiveBefore) >= max_requests
           THEN /\ last.result = Failure(RateLimitMsg, NoArg, FALSE, <<>>)
                /\ tool_output(last.result).text = QueryFailedPrefix
                /\ tool_output(last.result).error = RateLimitMsg
                /\ requests["default_user"] = SelectSeq(last.before, LAMBDA r : last.time - r < time_window)
           ELSE /\ last.result.error # RateLimitMsg
                /\ Len(requests["default_user"]) = Cardinality(LiveBefore) + 1

\* ten queries of thread t1 were let past, and the only query of thread t2, an
\* admissible one, was rejected as rate limited
C29_Witness ==
    /\ last.op = "run_query"
    /\ last.query = T_Select1
    /\ last.result.error = RateLimitMsg
    /\ CopiesIn(ToolCallBy("t1", FALSE), tool_calls) = VALIDATOR_MAX_REQUESTS
    /\ CopiesIn(ToolCallBy("t1", TRUE), tool_calls) = 0
    /\ CopiesIn(ToolCallBy("t2", FALSE), tool_calls) = 0
    /\ CopiesIn(ToolCallBy("t2", TRUE), tool_calls) = 1

====
